---- MODULE Spec2Model ----
(***************************************************************************)
(* Model of main.py: the requirement scanner that parses manifest lines    *)
(* into LibraryPackage objects, builds Vulnerability objects from the      *)
(* catalogue, and runs the module-level match loop.                        *)
(*                                                                         *)
(* Python strings are modelled as sequences of one-character strings, so   *)
(* that the regular expressions, str.split, str.lower and the string       *)
(* comparisons of the source are computed character by character.          *)
(***************************************************************************)
EXTENDS Integers, Sequences, FiniteSets, TLC

\* ------------------------------------------------------------------------
\* Bounds of the explored inputs
\* ------------------------------------------------------------------------
MaxParts == 2
MaxSpecs == 2
MaxLines == 2
MaxRecords == 2

\* ------------------------------------------------------------------------
\* Characters and Python str primitives
\* ------------------------------------------------------------------------
OpChars == {"<", ">", "=", "!"}
Digits == {"0", "1", "2", "3", "4", "5", "6", "7", "8", "9"}
Spaces == {" "}

\* Code point of a character (Python compares str by code point).
ord(c) ==
    CASE c = " " -> 32 [] c = "!" -> 33 [] c = "," -> 44 [] c = "." -> 46
      [] c = "0" -> 48 [] c = "1" -> 49 [] c = "2" -> 50 [] c = "3" -> 51
      [] c = "4" -> 52 [] c = "5" -> 53 [] c = "6" -> 54 [] c = "7" -> 55
      [] c = "8" -> 56 [] c = "9" -> 57 [] c = "<" -> 60 [] c = "=" -> 61
      [] c = ">" -> 62 [] c = "A" -> 65 [] c = "B" -> 66 [] c = "a" -> 97
      [] c = "b" -> 98 [] c = "~" -> 126

\* str < str : lexicographic on code points, a proper prefix is smaller.
RECURSIVE str_lt(_, _)
str_lt(a, b) ==
    IF a = <<>> THEN b # <<>>
    ELSE IF b = <<>> THEN FALSE
    ELSE IF ord(Head(a)) # ord(Head(b)) THEN ord(Head(a)) < ord(Head(b))
    ELSE str_lt(Tail(a), Tail(b))

str_gt(a, b) == str_lt(b, a)
str_le(a, b) == ~str_lt(b, a)
str_ge(a, b) == ~str_lt(a, b)

\* str.lower()
lower(s) ==
    [i \in 1..Len(s) |-> IF s[i] = "A" THEN "a" ELSE IF s[i] = "B" THEN "b" ELSE s[i]]

MinOf(S) == CHOOSE m \in S : \A n \in S : m <= n

\* str.split(sep=',')
RECURSIVE split(_)
split(s) ==
    LET commas == {i \in 1..Len(s) : s[i] = ","} IN
    IF commas = {} THEN <<s>>
    ELSE LET i == MinOf(commas) IN
         <<SubSeq(s, 1, i - 1)>> \o split(SubSeq(s, i + 1, Len(s)))

\* ------------------------------------------------------------------------
\* Regular expressions
\* ------------------------------------------------------------------------
\* End (exclusive) of the longest run of characters of Class starting at i:
\* a greedy X* / X+ of a character class.
Span(s, i, Class) ==
    MinOf({j \in i..(Len(s) + 1) : j = Len(s) + 1 \/ s[j] \notin Class})

\* (\.\d+)* from position p, greedy.
RECURSIVE DottedEnd(_, _)
DottedEnd(s, p) ==
    IF p + 1 <= Len(s) /\ s[p] = "." /\ s[p + 1] \in Digits
    THEN DottedEnd(s, Span(s, p + 1, Digits))
    ELSE p

\* \d+(\.\d+)* at position i: the end (exclusive) of the match, 0 if none.
VersionEnd(s, i) ==
    LET d == Span(s, i, Digits) IN
    IF d = i THEN 0 ELSE DottedEnd(s, d)

NoMatch == [matched |-> FALSE, name |-> <<>>, delimeter |-> <<>>, version |-> <<>>]

\* ([<>=!]+)\s*(\d+(\.\d+)*) matched at position i of s (no end anchor); the
\* text before i is group "name".
MatchSpecAt(s, i) ==
    LET o == Span(s, i, OpChars)
        w == Span(s, o, Spaces)
        e == VersionEnd(s, w)
    IN  IF o = i \/ e = 0 THEN NoMatch
        ELSE [matched |-> TRUE, name |-> SubSeq(s, 1, i - 1),
              delimeter |-> SubSeq(s, i, o - 1), version |-> SubSeq(s, w, e - 1)]

\* re.match(Vulnerability.INSECURE_SPECS_PATTERN, version)
INSECURE_SPECS_PATTERN(s) == MatchSpecAt(s, 1)

\* re.match(PackagesSource.LIB_STRING_PATTERN, lib_string): the lazy first
\* group takes the fewest characters (at least one) after which
\* \s*([<>=!]+)\s*(\d+(\.\d+)*) matches.
LIB_STRING_PATTERN(s) ==
    LET ks == {k \in 1..Len(s) : MatchSpecAt(s, Span(s, k + 1, Spaces)).matched} IN
    IF ks = {} THEN NoMatch
    ELSE LET k == MinOf(ks)
             m == MatchSpecAt(s, Span(s, k + 1, Spaces))
         IN  [m EXCEPT !.name = SubSeq(s, 1, k)]

\* ------------------------------------------------------------------------
\* LibraryPackage
\* ------------------------------------------------------------------------
LibraryPackage(name, delimeter, version) ==
    [name |-> name, delimeter |-> delimeter, version |-> version]

OpGE == <<">", "=">>
OpGT == <<">">>
OpLE == <<"<", "=">>
OpLT == <<"<">>
OpEQ == <<"=", "=">>
OpNE == <<"!", "=">>

\* LibraryPackage.__contains__ with the comparison of the branch
\* "item is '<' or '<=', self is '>'" turned around.
LibraryPackage_contains_flipped(self, item) ==
    IF self.delimeter = OpEQ THEN
        IF item.delimeter = OpGE THEN str_ge(self.version, item.version)
        ELSE IF item.delimeter = OpGT THEN str_gt(self.version, item.version)
        ELSE IF item.delimeter = OpLE THEN str_le(self.version, item.version)
        ELSE IF item.delimeter = OpLT THEN str_lt(self.version, item.version)
        ELSE FALSE
    ELSE
        IF item.delimeter \in {OpGE, OpGT} /\ self.delimeter \in {OpGE, OpGT} THEN TRUE
        ELSE IF item.delimeter \in {OpLE, OpLT} /\ self.delimeter \in {OpLE, OpLT} THEN TRUE
        ELSE IF item.delimeter = OpLE /\ self.delimeter = OpGE
            THEN str_le(self.version, item.version)
        ELSE IF item.delimeter = OpGE /\ self.delimeter = OpLE
            THEN str_ge(self.version, item.version)
        ELSE IF item.delimeter \in {OpLT, OpLE} /\ self.delimeter = OpGT
            THEN str_gt(self.version, item.version)
        ELSE IF item.delimeter \in {OpGT, OpGE} /\ self.delimeter = OpLT
            THEN str_gt(self.version, item.version)
        ELSE IF item.delimeter = OpLT /\ self.delimeter \in {OpGE, OpGT}
            THEN str_lt(self.version, item.version)
        ELSE IF item.delimeter = OpGT /\ self.delimeter \in {OpLE, OpLT}
            THEN str_gt(self.version, item.version)
        ELSE FALSE

\* LibraryPackage.__contains__(self, item), as the truth value the `in`
\* operator yields: falling off the end returns None, which `in` reads as
\* False.
LibraryPackage_contains(self, item) ==
    IF self.delimeter = OpEQ THEN
        IF item.delimeter = OpGE THEN str_ge(self.version, item.version)
        ELSE IF item.delimeter = OpGT THEN str_gt(self.version, item.version)
        ELSE IF item.delimeter = OpLE THEN str_le(self.version, item.version)
        ELSE IF item.delimeter = OpLT THEN str_lt(self.version, item.version)
        ELSE FALSE
    ELSE
        IF item.delimeter \in {OpGE, OpGT} /\ self.delimeter \in {OpGE, OpGT} THEN TRUE
        ELSE IF item.delimeter \in {OpLE, OpLT} /\ self.delimeter \in {OpLE, OpLT} THEN TRUE
        ELSE IF item.delimeter = OpLE /\ self.delimeter = OpGE
            THEN str_le(self.version, item.version)
        ELSE IF item.delimeter = OpGE /\ self.delimeter = OpLE
            THEN str_ge(self.version, item.version)
        ELSE IF item.delimeter \in {OpLT, OpLE} /\ self.delimeter = OpGT
            THEN str_lt(self.version, item.version)
        ELSE IF item.delimeter \in {OpGT, OpGE} /\ self.delimeter = OpLT
            THEN str_gt(self.version, item.version)
        ELSE IF item.delimeter = OpLT /\ self.delimeter \in {OpGE, OpGT}
            THEN str_lt(self.version, item.version)
        ELSE IF item.delimeter = OpGT /\ self.delimeter \in {OpLE, OpLT}
            THEN str_gt(self.version, item.version)
        ELSE FALSE

\* ------------------------------------------------------------------------
\* Vulnerability
\* ------------------------------------------------------------------------
\* The sub-spec strings _get_version_limits visits, in order: every spec
\* split on ','.
RECURSIVE sub_specs(_)
sub_specs(specs) ==
    IF specs = <<>> THEN <<>> ELSE split(Head(specs)) \o sub_specs(Tail(specs))

\* _get_version_limits raises AttributeError (matches is None) on the first
\* sub-spec the pattern does not match.
specs_parse(specs) ==
    \A i \in 1..Len(sub_specs(specs)) : INSECURE_SPECS_PATTERN(sub_specs(specs)[i]).matched

\* Vulnerability._get_version_limits: one LibraryPackage per sub-spec, all
\* appended to the one list version_limits.
get_version_limits(name, specs) ==
    LET subs == sub_specs(specs) IN
    [i \in 1..Len(subs) |->
        LibraryPackage(name, INSECURE_SPECS_PATTERN(subs[i]).delimeter,
                             INSECURE_SPECS_PATTERN(subs[i]).version)]

\* Vulnerability.__init__
Vulnerability(name, advisory, specs) ==
    [name |-> name, advisory |-> advisory,
     version_limits |-> get_version_limits(name, specs)]

\* Vulnerability.__contains__(self, item), as the truth value of `item in self`.
Vulnerability_contains(self, item) ==
    \A i \in 1..Len(self.version_limits) :
        LibraryPackage_contains(self.version_limits[i], item)

\* ------------------------------------------------------------------------
\* InsecureLibrary
\* ------------------------------------------------------------------------
None == [isNone |-> TRUE, list |-> <<>>]
Some(l) == [isNone |-> FALSE, list |-> l]
Truthy(v) == ~v.isNone /\ v.list # <<>>

\* InsecureLibrary(name) followed by add_vulnerability for every catalogue
\* record of the name.
InsecureLibrary(name, records) ==
    [name |-> name,
     vulnerabilities |->
        [i \in 1..Len(records) |->
            Vulnerability(name, records[i].advisory, records[i].specs)]]

\* InsecureLibrary.match_vulnerability
match_vulnerability(self, lib_package) ==
    IF lib_package.name = self.name THEN
        LET hit(v) == Vulnerability_contains(v, lib_package)
            res == SelectSeq(self.vulnerabilities, hit)
        IN  IF res # <<>> THEN Some(res) ELSE None
    ELSE None

\* ------------------------------------------------------------------------
\* PackagesSource
\* ------------------------------------------------------------------------
\* The loop body with '==' as the operator of a bare name.
parse_lib_string_pinned(lib_string) ==
    LET matches == LIB_STRING_PATTERN(lib_string) IN
    IF matches.matched
    THEN LibraryPackage(lower(matches.name), matches.delimeter, matches.version)
    ELSE LibraryPackage(lower(lib_string), <<"=", "=">>, <<"0">>)

\* Body of the loop of PackagesSource.get_libraries for one line.
parse_lib_string(lib_string) ==
    LET matches == LIB_STRING_PATTERN(lib_string) IN
    IF matches.matched
    THEN LibraryPackage(lower(matches.name), matches.delimeter, matches.version)
    ELSE LibraryPackage(lower(lib_string), <<">">>, <<"0">>)

\* ------------------------------------------------------------------------
\* Program state
\* ------------------------------------------------------------------------
VARIABLES
    libs_str_list,           \* requirement_files_content: the manifest lines
    INSECURE_FULL_CATALOGUE, \* name -> sequence of [advisory, specs]
    pc,                      \* "parse", "build", "match", "done", "crashed"
    k,                       \* position of the running for loop of get_libraries
    requirements_list,       \* client.requirements_list
    result,                  \* InsecureLibrariesSource.get_libraries: result
    insecurity_libraries,    \* module level: insecurity_libraries (or None)
    il,                      \* position of the outer match loop
    rl,                      \* position of the inner match loop
    insecure_library,        \* module level loop variable
    requirement_library,     \* module level loop variable
    match,                   \* module level: match
    vulnerabilities,         \* module level: vulnerabilities
    stdout,                 \* advisories written to stdout
    error                    \* the exception that ended the run, "" if none

vars == <<libs_str_list, INSECURE_FULL_CATALOGUE, pc, k, requirements_list, result,
          insecurity_libraries, il, rl, insecure_library, requirement_library,
          match, vulnerabilities, stdout, error>>

Unbound == [unbound |-> TRUE]

Start ==
    /\ pc = "parse"
    /\ k = 1
    /\ requirements_list = <<>>
    /\ result = <<>>
    /\ insecurity_libraries = None
    /\ il = 1
    /\ rl = 1
    /\ insecure_library = Unbound
    /\ requirement_library = Unbound
    /\ match = None
    /\ vulnerabilities = <<>>
    /\ stdout = <<>>
    /\ error = ""

\* ------------------------------------------------------------------------
\* Inputs
\* ------------------------------------------------------------------------
Operators == {OpGE, OpGT, OpLE, OpLT, OpEQ, OpNE}
Numerals == {<<"0">>, <<"2">>, <<"1", "0">>}

RECURSIVE VersionsOfParts(_)
VersionsOfParts(n) ==
    IF n = 1 THEN Numerals
    ELSE {v \o <<".">> \o m : v \in VersionsOfParts(n - 1), m \in Numerals}

Versions == UNION {VersionsOfParts(n) : n \in 1..MaxParts}

SeqsUpTo(S, lo, hi) == UNION {[1..n -> S] : n \in lo..hi}

Adv(i) == "CVE-" \o ToString(i)

\* A record list whose i-th record carries the i-th spec list.
Records(specLists) ==
    [i \in 1..Len(specLists) |-> [advisory |-> Adv(i), specs |-> specLists[i]]]

\* One declared line against one catalogue record with one bound: every
\* operator and version on both sides, and the bare name.
PairLines ==
    {<<"a">> \o op \o v : op \in Operators, v \in Versions} \cup {<<"a">>}
PairSpecs == {op \o v : op \in Operators, v \in Versions}

InitPair ==
    /\ libs_str_list \in {<<l>> : l \in PairLines}
    /\ INSECURE_FULL_CATALOGUE \in
          {[n \in {<<"a">>} |-> Records(<<(<<s>>)>>)] : s \in PairSpecs}
    /\ Start

\* One declared line against one record with several ranges.
RangeLines ==
    { <<"a">>, <<"A">>,
      <<"a", ">", "=", "2">>, <<"a", "<", "1">>,
      <<"a", "=", "=", "2", ".", "5">>, <<"a", "=", "=", "3">>,
      <<"a", "=", "=", "0", ".", "5">> }
RangeSpecs ==
    { <<"<", "1">>, <<">", "=", "2", ",", "<", "3">>, <<"!", "=", "2">>,
      <<"<", "=", "0">>, <<">", "0">>, <<"=", "=", "2">>, <<"=", "=", "0">>,
      <<"<", "0">>, <<">", "=", "0", ",", "<", "=", "2">>, <<">", "=", "2">>,
      <<"!", "=", "0">>, <<">", "2">> }

InitRange ==
    /\ libs_str_list \in {<<l>> : l \in RangeLines}
    /\ INSECURE_FULL_CATALOGUE \in
          {[n \in {<<"a">>} |-> Records(<<sl>>)] : sl \in SeqsUpTo(RangeSpecs, 1, MaxSpecs)}
    /\ Start

\* Whole manifests against whole catalogues.
ScanLines ==
    { <<"a", ">", "2">>, <<"a", "<", "2">>, <<"A", "<", "2">>, <<"b", "<", "2">> }
ScanSpecLists ==
    { << <<"<", "2">> >>, << <<">", "=", "2", ",", " ", "<", "3">> >> }
ScanKeys == {<<"a">>, <<"A">>, <<"b">>}
ScanRecordLists == {Records(sls) : sls \in SeqsUpTo(ScanSpecLists, 1, MaxRecords)}

InitScan ==
    /\ libs_str_list \in SeqsUpTo(ScanLines, 0, MaxLines)
    /\ INSECURE_FULL_CATALOGUE \in
          UNION {[K -> ScanRecordLists] : K \in SUBSET ScanKeys}
    /\ Start

\* ------------------------------------------------------------------------
\* Steps
\* ------------------------------------------------------------------------
\* PackagesSource.get_libraries: one iteration of the loop over the lines.
ParseLine ==
    /\ pc = "parse"
    /\ k <= Len(libs_str_list)
    /\ requirements_list' = Append(requirements_list, parse_lib_string(libs_str_list[k]))
    /\ k' = k + 1
    /\ UNCHANGED <<libs_str_list, INSECURE_FULL_CATALOGUE, pc, result,
                   insecurity_libraries, il, rl, insecure_library,
                   requirement_library, match, vulnerabilities, stdout, error>>

\* PackagesSource.get_libraries returns; GitClient.__init__ stores the list.
ParseReturn ==
    /\ pc = "parse"
    /\ k > Len(libs_str_list)
    /\ pc' = "build"
    /\ k' = 1
    /\ UNCHANGED <<libs_str_list, INSECURE_FULL_CATALOGUE, requirements_list, result,
                   insecurity_libraries, il, rl, insecure_library,
                   requirement_library, match, vulnerabilities, stdout, error>>

\* InsecureLibrariesSource.get_libraries: one iteration of the loop over the
\* declared libraries. Building a Vulnerability raises AttributeError when
\* a sub-spec does not match INSECURE_SPECS_PATTERN; nothing catches it.
BuildLibrary ==
    /\ pc = "build"
    /\ k <= Len(requirements_list)
    /\ LET name == requirements_list[k].name IN
       IF name \in DOMAIN INSECURE_FULL_CATALOGUE THEN
           IF \A i \in 1..Len(INSECURE_FULL_CATALOGUE[name]) :
                  specs_parse(INSECURE_FULL_CATALOGUE[name][i].specs)
           THEN /\ result' = Append(result, InsecureLibrary(name, INSECURE_FULL_CATALOGUE[name]))
                /\ k' = k + 1
                /\ UNCHANGED <<pc, error>>
           ELSE /\ pc' = "crashed"
                /\ error' = "AttributeError"
                /\ UNCHANGED <<result, k>>
       ELSE /\ k' = k + 1
            /\ UNCHANGED <<result, pc, error>>
    /\ UNCHANGED <<libs_str_list, INSECURE_FULL_CATALOGUE, requirements_list,
                   insecurity_libraries, il, rl, insecure_library,
                   requirement_library, match, vulnerabilities, stdout>>

\* InsecureLibrariesSource.get_libraries returns result if it is non-empty
\* and None otherwise; the module stores it in insecurity_libraries.
BuildReturn ==
    /\ pc = "build"
    /\ k > Len(requirements_list)
    /\ insecurity_libraries' = IF result # <<>> THEN Some(result) ELSE None
    /\ pc' = "match"
    /\ UNCHANGED <<libs_str_list, INSECURE_FULL_CATALOGUE, k, requirements_list, result,
                   il, rl, insecure_library, requirement_library, match,
                   vulnerabilities, stdout, error>>

\* Module-level match loop: one iteration of the inner loop. Iterating over
\* None raises TypeError.
MatchStep ==
    /\ pc = "match"
    /\ IF insecurity_libraries.isNone THEN
           /\ pc' = "crashed"
           /\ error' = "TypeError"
           /\ UNCHANGED <<il, rl, insecure_library, requirement_library, match,
                          vulnerabilities>>
       ELSE
           /\ il <= Len(insecurity_libraries.list)
           /\ rl <= Len(requirements_list)
           /\ LET lib == insecurity_libraries.list[il]
                  req == requirements_list[rl]
                  m   == IF lib.name = req.name THEN match_vulnerability(lib, req) ELSE match
              IN  /\ insecure_library' = lib
                  /\ requirement_library' = req
                  /\ match' = m
                  /\ vulnerabilities' =
                        IF lib.name = req.name /\ Truthy(m)
                        THEN vulnerabilities \o m.list ELSE vulnerabilities
           /\ IF rl = Len(requirements_list)
              THEN il' = il + 1 /\ rl' = 1
              ELSE il' = il /\ rl' = rl + 1
           /\ UNCHANGED <<pc, error>>
    /\ UNCHANGED <<libs_str_list, INSECURE_FULL_CATALOGUE, k, requirements_list, result,
                   insecurity_libraries, stdout>>

\* The match loop is exhausted: write every collected advisory to stdout.
Report ==
    /\ pc = "match"
    /\ ~insecurity_libraries.isNone
    /\ il > Len(insecurity_libraries.list)
    /\ stdout' = [i \in 1..Len(vulnerabilities) |-> vulnerabilities[i].advisory]
    /\ pc' = "done"
    /\ UNCHANGED <<libs_str_list, INSECURE_FULL_CATALOGUE, k, requirements_list, result,
                   insecurity_libraries, il, rl, insecure_library,
                   requirement_library, match, vulnerabilities, error>>

Next == ParseLine \/ ParseReturn \/ BuildLibrary \/ BuildReturn \/ MatchStep \/ Report

Spec == InitScan /\ [][Next]_vars
SpecPair == InitPair /\ [][Next]_vars
SpecRange == InitRange /\ [][Next]_vars

\* ------------------------------------------------------------------------
\* Vocabulary of the properties
\* ------------------------------------------------------------------------
Up == {OpGE, OpGT}
Down == {OpLE, OpLT}
Directional == Up \cup Down

\* A match step has acted: the loop variables and match are bound.
StepTaken == pc \in {"match", "done"} /\ (il > 1 \/ rl > 1)

\* The library under test holds one record with one bound.
SingleBound ==
    /\ Len(insecure_library.vulnerabilities) = 1
    /\ Len(insecure_library.vulnerabilities[1].version_limits) = 1

TheBound == insecure_library.vulnerabilities[1].version_limits[1]
Matched == Truthy(match)

\* Decimal value of a numeral, and the numeric components of a version.
RECURSIVE NumeralValue(_)
NumeralValue(s) ==
    IF s = <<>> THEN 0
    ELSE 10 * NumeralValue(SubSeq(s, 1, Len(s) - 1)) + (ord(s[Len(s)]) - 48)

RECURSIVE Components(_)
Components(v) ==
    LET dots == {i \in 1..Len(v) : v[i] = "."} IN
    IF dots = {} THEN <<NumeralValue(v)>>
    ELSE <<NumeralValue(SubSeq(v, 1, MinOf(dots) - 1))>>
            \o Components(SubSeq(v, MinOf(dots) + 1, Len(v)))

\* Numeric order: component by component, the shorter value padded with 0.
NumLt(a, b) ==
    LET ca == Components(a)
        cb == Components(b)
        n  == IF Len(ca) > Len(cb) THEN Len(ca) ELSE Len(cb)
        at(c, i) == IF i <= Len(c) THEN c[i] ELSE 0
    IN  \E i \in 1..n :
            /\ at(ca, i) < at(cb, i)
            /\ \A j \in 1..(i - 1) : at(ca, j) = at(cb, j)

\* The decision table for two directional operators, over an order Lt.
TableDirectional(d, b, Lt(_, _)) ==
    LET dv == d.version
        bv == b.version
        lt == Lt(dv, bv)
        gt == Lt(bv, dv)
        le == ~Lt(bv, dv)
        ge == ~Lt(dv, bv)
    IN  IF d.delimeter \in Up /\ b.delimeter \in Up THEN TRUE
        ELSE IF d.delimeter \in Down /\ b.delimeter \in Down THEN TRUE
        ELSE IF d.delimeter = OpGE /\ b.delimeter = OpLE THEN le
        ELSE IF d.delimeter = OpLE /\ b.delimeter = OpGE THEN ge
        ELSE IF d.delimeter = OpGT /\ b.delimeter \in Down THEN lt
        ELSE IF d.delimeter \in Up /\ b.delimeter = OpLT THEN lt
        ELSE IF d.delimeter = OpLT /\ b.delimeter \in Up THEN gt
        ELSE IF d.delimeter \in Down /\ b.delimeter = OpGT THEN gt
        ELSE FALSE

\* The decision table for a declared '==' against the six bound operators.
TablePinned(d, b, Lt(_, _)) ==
    LET dv == d.version
        bv == b.version
    IN  IF b.delimeter = OpEQ THEN dv = bv
        ELSE IF b.delimeter = OpNE THEN dv # bv
        ELSE IF b.delimeter = OpGE THEN ~Lt(dv, bv)
        ELSE IF b.delimeter = OpGT THEN Lt(bv, dv)
        ELSE IF b.delimeter = OpLE THEN ~Lt(bv, dv)
        ELSE IF b.delimeter = OpLT THEN Lt(dv, bv)
        ELSE FALSE

\* The whole decision table: uncovered pairings are inconsistent.
TableConsistent(d, b, Lt(_, _)) ==
    IF d.delimeter = OpEQ THEN TablePinned(d, b, Lt)
    ELSE IF d.delimeter \in Directional /\ b.delimeter \in Directional
        THEN TableDirectional(d, b, Lt)
    ELSE FALSE

\* ------------------------------------------------------------------------
\* Properties
\* ------------------------------------------------------------------------

\* C7: for two directional operators the outcome of matching a declared
\* requirement against a record with one bound equals the decision-table
\* entry evaluated with the engine's own (string) version comparison.
C7_DirectionalTable ==
    (StepTaken /\ SingleBound
        /\ requirement_library.delimeter \in Directional
        /\ TheBound.delimeter \in Directional)
    => (Matched <=> TableDirectional(requirement_library, TheBound, str_lt))

\* C7 witness: a declared '>=' met an upper bound '<' and matched, and the
\* scan ran to its end.
C7_Witness ==
    /\ pc = "done"
    /\ SingleBound
    /\ requirement_library.delimeter = OpGE
    /\ TheBound.delimeter = OpLT
    /\ requirement_library.version # TheBound.version
    /\ Matched
    /\ stdout # <<>>

\* C2: versions are ordered numerically: for two directional operators the
\* outcome equals the decision-table entry evaluated with the numeric,
\* zero-padded, component-wise order.
C2_NumericOrder ==
    (StepTaken /\ SingleBound
        /\ requirement_library.delimeter \in Directional
        /\ TheBound.delimeter \in Directional)
    => (Matched <=> TableDirectional(requirement_library, TheBound, NumLt))

\* C3: a declared '==' requirement is consistent with a bound exactly when
\* the decision table says so, for each of the six bound operators.
C3_PinnedTable ==
    (StepTaken /\ SingleBound
        /\ requirement_library.delimeter = OpEQ
        /\ TheBound.delimeter \in Operators)
    => (Matched <=> TablePinned(requirement_library, TheBound, str_lt))

\* The catalogue record list of the library under test, and the bounds of
\* one of its spec strings (one range).
RecordsUnderTest == INSECURE_FULL_CATALOGUE[insecure_library.name]
RangeBounds(name, spec) == get_version_limits(name, <<spec>>)

\* The declared requirement passes the engine's consistency test against
\* every bound of the range.
IntersectsRange(d, spec) ==
    \A i \in 1..Len(RangeBounds(d.name, spec)) :
        LibraryPackage_contains(RangeBounds(d.name, spec)[i], d)

\* C1: the ranges of a record are OR-connected: a record with two or more
\* spec strings matches a declared requirement that intersects one of them.
C1_RangesOrConnected ==
    (StepTaken
        /\ Len(RecordsUnderTest) = 1
        /\ Len(RecordsUnderTest[1].specs) >= 2
        /\ \E i \in 1..Len(RecordsUnderTest[1].specs) :
              IntersectsRange(requirement_library, RecordsUnderTest[1].specs[i]))
    => Matched

\* C8: a record with the single range 'lower,upper' matches a declared
\* requirement exactly when the decision table makes the requirement
\* consistent with the lower bound and with the upper bound.
C8_ConjunctionOfBounds ==
    (StepTaken
        /\ Len(RecordsUnderTest) = 1
        /\ Len(RecordsUnderTest[1].specs) = 1
        /\ Len(split(RecordsUnderTest[1].specs[1])) = 2)
    => LET b == RangeBounds(requirement_library.name, RecordsUnderTest[1].specs[1]) IN
       Matched <=> /\ TableConsistent(requirement_library, b[1], str_lt)
                   /\ TableConsistent(requirement_library, b[2], str_lt)

\* A manifest line that carries no operator and no version.
BareLine(line) == \A i \in 1..Len(line) : line[i] \notin (OpChars \cup Digits)

\* A bound the requirement ('>', "0") passes: it points upward, or it is
\* '<=', '<' or '==' with a version string other than "0".
PassedByBareName(b) ==
    \/ b.delimeter \in Up
    \/ b.delimeter \in (Down \cup {OpEQ}) /\ b.version # <<"0">>

Reported(v) ==
    \E i \in 1..Len(stdout) : stdout[i] = v.advisory

\* C10 as stated: a bare name is parsed as (lowercased name, '>', "0") and
\* every record of its package is matched and reported, whatever its bounds.
C10_BareNameAlwaysTrue ==
    (Len(libs_str_list) = 1 /\ BareLine(libs_str_list[1]))
    => /\ pc # "parse" =>
            requirements_list = <<LibraryPackage(lower(libs_str_list[1]), OpGT, <<"0">>)>>
       /\ StepTaken =>
            \A i \in 1..Len(insecure_library.vulnerabilities) :
                /\ \E j \in 1..Len(match.list) :
                        match.list[j] = insecure_library.vulnerabilities[i]
                /\ pc = "done" => Reported(insecure_library.vulnerabilities[i])

\* C10 amended: a bare name is parsed as (lowercased name, '>', "0") and is
\* never dropped; every record of its package all of whose bounds point
\* upward or are '<=', '<', '==' with a version other than "0" is matched
\* and reported; against a single bound it matches for these bounds only.
C10_BareNameAmended ==
    (Len(libs_str_list) = 1 /\ BareLine(libs_str_list[1]))
    => /\ pc # "parse" =>
            requirements_list = <<LibraryPackage(lower(libs_str_list[1]), OpGT, <<"0">>)>>
       /\ StepTaken =>
            \A i \in 1..Len(insecure_library.vulnerabilities) :
                LET v == insecure_library.vulnerabilities[i] IN
                (\A n \in 1..Len(v.version_limits) : PassedByBareName(v.version_limits[n]))
                => /\ \E j \in 1..Len(match.list) : match.list[j] = v
                   /\ pc = "done" => Reported(v)
       /\ (StepTaken /\ SingleBound) => (Matched <=> PassedByBareName(TheBound))

\* C10 witness: an upper-case bare name met a record with two ranges, one of
\* them with two bounds, and the record was reported.
C10_Witness ==
    /\ pc = "done"
    /\ libs_str_list = << <<"A">> >>
    /\ requirement_library = LibraryPackage(<<"a">>, OpGT, <<"0">>)
    /\ Len(RecordsUnderTest[1].specs) = 2
    /\ Len(insecure_library.vulnerabilities[1].version_limits) = 3
    /\ \E n \in 1..3 : insecure_library.vulnerabilities[1].version_limits[n].delimeter = OpLT
    /\ stdout = <<RecordsUnderTest[1].advisory>>

\* The declared names, as the join reads them.
DeclaredNames == {requirements_list[p].name : p \in 1..Len(requirements_list)}

\* Positions of the manifest whose requirement the record (key, r) matches.
Hits(key, r) ==
    {p \in 1..Len(requirements_list) :
        /\ requirements_list[p].name = key
        /\ Vulnerability_contains(
              Vulnerability(key, INSECURE_FULL_CATALOGUE[key][r].advisory,
                                 INSECURE_FULL_CATALOGUE[key][r].specs),
              requirements_list[p])}

\* Emissions of the record (key, r).
Emissions(key, r) ==
    {i \in 1..Len(vulnerabilities) :
        /\ vulnerabilities[i].name = key
        /\ vulnerabilities[i].advisory = INSECURE_FULL_CATALOGUE[key][r].advisory}

\* C4: a spec string that does not match the pattern never aborts the scan:
\* no run ends in the AttributeError of a failed pattern match, and a
\* finished scan reports every well-formed record that a declared
\* requirement matches.
C4_MalformedSpecDropped ==
    /\ error # "AttributeError"
    /\ pc = "done" =>
          \A key \in DOMAIN INSECURE_FULL_CATALOGUE :
              \A r \in 1..Len(INSECURE_FULL_CATALOGUE[key]) :
                  (specs_parse(INSECURE_FULL_CATALOGUE[key][r].specs) /\ Hits(key, r) # {})
                  => Emissions(key, r) # {}

\* C5: a scan in which no declared name has a catalogue entry (the empty
\* manifest included) completes normally.
C5_LookupMissNotAnError ==
    (pc \notin {"parse"} /\ DeclaredNames \cap DOMAIN INSECURE_FULL_CATALOGUE = {})
    => pc # "crashed"

\* C6: a finished scan has emitted each catalogue record once per declared
\* requirement (by position) that it matches, and nothing else.
C6_OncePerDeclaredRequirement ==
    pc = "done" =>
        /\ \A key \in DOMAIN INSECURE_FULL_CATALOGUE :
              \A r \in 1..Len(INSECURE_FULL_CATALOGUE[key]) :
                  key \in DeclaredNames =>
                      Cardinality(Emissions(key, r)) = Cardinality(Hits(key, r))
        /\ \A i \in 1..Len(vulnerabilities) :
              vulnerabilities[i].name \in DeclaredNames \cap DOMAIN INSECURE_FULL_CATALOGUE

\* C9: names are joined case-insensitively: a finished scan has emitted
\* every well-formed record whose catalogue key (the only key of that
\* spelling up to letter case) equals a declared name up to letter case and
\* which that declared requirement matches.
C9_CaseInsensitiveJoin ==
    pc = "done" =>
        \A key \in DOMAIN INSECURE_FULL_CATALOGUE :
            \A r \in 1..Len(INSECURE_FULL_CATALOGUE[key]) :
                \A p \in 1..Len(requirements_list) :
                    LET rec == INSECURE_FULL_CATALOGUE[key][r]
                        req == requirements_list[p]
                    IN  ( /\ lower(key) = req.name
                          /\ \A other \in DOMAIN INSECURE_FULL_CATALOGUE :
                                lower(other) = lower(key) => other = key
                          /\ specs_parse(rec.specs)
                          /\ Vulnerability_contains(
                                Vulnerability(req.name, rec.advisory, rec.specs), req) )
                        => \E i \in 1..Len(vulnerabilities) :
                                /\ lower(vulnerabilities[i].name) = lower(key)
                                /\ vulnerabilities[i].advisory = rec.advisory
====
